---- MODULE Spec2Model ----
(***************************************************************************)
(* A model of the SIYA agent (enkaycredain/siga): the batch loop of main,  *)
(* process_single_company with its worker thread and join timeout, the     *)
(* Excel and JSON writers, and the extract_company_info bodies of the      *)
(* three provider adapters.                                                *)
(*                                                                         *)
(* Strings that the code takes apart (company names) are sequences of      *)
(* one-character strings.  A parsed JSON value is a record of fixed shape  *)
(* (see Payloads).  datetime.now() is the variable clock, in seconds.      *)
(* The "Date Time of Run" column and the column widths of the workbook are *)
(* left out of the rows; file-system failures of the workbook and of the   *)
(* JSON directory are not modelled.                                        *)
(***************************************************************************)
EXTENDS Integers, Sequences, FiniteSets, TLC

\* ------------------------------------------------------------------ bounds
\* longest company list read from the CSV file
MaxCompanies == 2
\* most rows of a CSV file handed to read_companies_from_csv
MaxCsvRows == 2
\* most models a backend lists
MaxModels == 2
\* seconds that may pass on the wall clock during one run
MaxClock == 1

\* ------------------------------------------------------- program constants
\* config_loader.py: COMPANY_RESEARCH_TIMEOUT_SECONDS defaults to 60
TimeoutSeconds == 60

\* ------------------------------------------------------------------ strings
Acme == <<"A", "c">>
AcmeBang == <<"A", "c", "!">>
EmptyName == <<>>
BlankName == <<" ">>

\* the names read_companies_from_csv can return: stripped and non-blank
CompanyNames == {Acme, AcmeBang}
\* the values of --company: absent or empty, whitespace only, a name
ArgCompanies == {EmptyName, BlankName, Acme}

Letters == {"A", "c", "b", "v", "1", "R"}

\* str.isalnum of one character
isalnum(c) == c \in Letters

\* bool(s) of a str: the empty string is falsy
Truthy(s) == Len(s) > 0

RECURSIVE rstrip(_)
\* str.rstrip(): trailing whitespace removed
rstrip(s) ==
    IF Len(s) > 0 /\ s[Len(s)] = " " THEN rstrip(SubSeq(s, 1, Len(s) - 1)) ELSE s

\* "".join(c for c in s if keep(c)) with the keep test of line 191
KeepSafe(s) == SelectSeq(s, LAMBDA c : isalnum(c) \/ c \in {" ", ".", "_"})

\* str.replace(' ', '_')
SpacesToUnderscores(s) == [k \in 1..Len(s) |-> IF s[k] = " " THEN "_" ELSE s[k]]

\* the file-name part computed from a company name
sanitized_company_name(company_name) ==
    SpacesToUnderscores(rstrip(KeepSafe(company_name)))

\* -------------------------------------------------------------- JSON values
\* One of the three list-valued fields of a payload: missing, a list of
\* items (each a mapping "map" or a non-mapping "str"), a number or null.
Absent == [t |-> "absent", items |-> <<>>]
ListOf(items) == [t |-> "list", items |-> items]

NoKey == [has |-> FALSE, s |-> <<>>]
Key(s) == [has |-> TRUE, s |-> s]

\* a parsed JSON value that is not a mapping
NonDict(kind) ==
    [kind |-> kind, error |-> NoKey, company_name |-> NoKey,
     subsidiaries |-> Absent, financial_info |-> Absent, news_info |-> Absent]

\* a mapping with the given keys
Dict(err, name, subs, fin, news) ==
    [kind |-> "dict", error |-> err, company_name |-> name,
     subsidiaries |-> subs, financial_info |-> fin, news_info |-> news]

\* {}
EmptyDict == Dict(NoKey, NoKey, Absent, Absent, Absent)
\* {"company_name": name}
NameOnly(name) == Dict(NoKey, Key(name), Absent, Absent, Absent)
\* {"error": msg}
ErrorDict(msg) == Dict(Key(msg), NoKey, Absent, Absent, Absent)

Boom == <<"b">>

FullPayload == Dict(NoKey, Key(Acme), ListOf(<<"map", "map">>), ListOf(<<"map">>), ListOf(<<>>))

\* the values json.loads can hand back to the caller of extract_company_info
Payloads ==
    {FullPayload, EmptyDict, ErrorDict(Boom), NonDict("list"), NonDict("number")}

\* the exceptions an extract call can raise: subclass of Exception or not,
\* and str(e)
Exceptions ==
    {[isException |-> TRUE, msg |-> Boom], [isException |-> TRUE, msg |-> <<>>]}

\* `"error" in v` raises TypeError when v is a number or None
InRaises(v) == v.kind \in {"null", "number"}
\* `"error" in v` (a list here is the empty list)
HasErrorKey(v) == v.kind = "dict" /\ v.error.has

\* data.get("company_name", "")
GetCompanyName(data) == IF data.company_name.has THEN data.company_name.s ELSE <<>>

\* ------------------------------------------------------------ configuration
Placeholder == "[COMPANY_PLACEHOLDER]"
V1 == <<"v", "1">>

\* a prompts.json entry with both texts, and the entry {}
ValidTemplate ==
    [nonempty |-> TRUE, user_template |-> <<"R", " ", Placeholder>>, system_message |-> <<"R">>]
EmptyTemplate == [nonempty |-> FALSE, user_template |-> <<>>, system_message |-> <<>>]
Templates == {ValidTemplate, EmptyTemplate}

RECURSIVE replace(_, _)
\* user_template.replace("[COMPANY_PLACEHOLDER]", company_name)
replace(t, company_name) ==
    IF t = <<>> THEN <<>>
    ELSE (IF Head(t) = Placeholder THEN company_name ELSE <<Head(t)>>)
         \o replace(Tail(t), company_name)

ModelName == <<"c">>
\* str(uuid.uuid4()): an identifier that no earlier invocation has drawn
EarlierRunIds == {"run-0"}
RunIds == {"run-1"}

\* ----------------------------------------------------------- error messages
\* error_message is None or one of the four f-strings of process_single_company
NoError == [kind |-> "none", company |-> <<>>, detail |-> <<>>, secs |-> 0]
PromptNotFoundMessage(prompt_version) ==
    [kind |-> "prompt version not found", company |-> <<>>, detail |-> prompt_version, secs |-> 0]
TimeoutMessage(company_name, timeout_seconds) ==
    [kind |-> "timed out", company |-> company_name, detail |-> <<>>, secs |-> timeout_seconds]
ExtractionErrorMessage(company_name, err) ==
    [kind |-> "error during AI extraction", company |-> company_name, detail |-> err, secs |-> 0]
ModelErrorMessage(company_name, err) ==
    [kind |-> "AI model returned an error", company |-> company_name, detail |-> err, secs |-> 0]

\* bool(error_message): None is falsy, the f-strings are never empty
IsError(error_message) == error_message.kind # "none"

\* ------------------------------------------------------------- JSON records
NoFile == [has |-> FALSE, name |-> <<>>, run_id |-> "", ts |-> 0]

\* the path of the record file: <sanitized name>_<run_id>_<timestamp>.json
FilePath(company_name, run_id, now) ==
    [has |-> TRUE, name |-> sanitized_company_name(company_name), run_id |-> run_id, ts |-> now]

\* variant: the record keeps only the name of the company as its payload
JsonRecord_nameOnly(company_name, extracted_data, ai_model_chosen, prompt_used, run_id) ==
    [run_id |-> run_id, company_name |-> company_name, ai_model_chosen |-> ai_model_chosen,
     prompt_used |-> prompt_used, extracted_data |-> NameOnly(company_name)]

\* json_output_content; json.dump writes every value json.loads can produce
\* so that it reads back equal
JsonRecord(company_name, extracted_data, ai_model_chosen, prompt_used, run_id) ==
    [run_id |-> run_id, company_name |-> company_name, ai_model_chosen |-> ai_model_chosen,
     prompt_used |-> prompt_used, extracted_data |-> extracted_data]

\* open(file_path, 'w') and json.dump: the file is created or overwritten
SaveRawJsonOutput(files, path, content) ==
    [f \in DOMAIN files \cup {path} |-> IF f = path THEN content ELSE files[f]]

\* ------------------------------------------------------------------ workbook
\* len(data.get(field, [])) raises TypeError for a number
LenRaises(field) == field.t = "number"
Count(field) == Len(field.items)
\* item.get(...) raises AttributeError for an item that is not a mapping
ItemsRaise(field) == \E k \in 1..Len(field.items) : field.items[k] # "map"

DetailRowsOf(field, data_type, run_id, company_name, req) ==
    [k \in 1..Len(field.items) |->
        [req |-> req, run_id |-> run_id, company |-> company_name, data_type |-> data_type]]

\* Whether a call of _write_to_excel raises inside its try block, so that the
\* workbook is never saved and neither sheet gains a row.
WriteRaises(data, error_message) ==
    \/ data.kind # "dict"
    \/ LenRaises(data.subsidiaries) \/ LenRaises(data.financial_info) \/ LenRaises(data.news_info)
    \/ /\ ~IsError(error_message)
       /\ \/ ItemsRaise(data.subsidiaries) \/ ItemsRaise(data.financial_info)
          \/ ItemsRaise(data.news_info)

\* variant: every call draws an identifier of its own for its row
SummaryRow_idPerCall(data, ai_model_chosen, prompt_used, error_message, run_id, json_output_file, req) ==
    [req |-> req, run_id |-> <<run_id, req>>, company |-> GetCompanyName(data),
     model |-> ai_model_chosen, prompt |-> prompt_used, error |-> error_message,
     subsidiaries |-> Count(data.subsidiaries), financial |-> Count(data.financial_info),
     news |-> Count(data.news_info), json |-> json_output_file]

\* summary_row_data; req is the index of the request that made the call
SummaryRow(data, ai_model_chosen, prompt_used, error_message, run_id, json_output_file, req) ==
    [req |-> req, run_id |-> run_id, company |-> GetCompanyName(data),
     model |-> ai_model_chosen, prompt |-> prompt_used, error |-> error_message,
     subsidiaries |-> Count(data.subsidiaries), financial |-> Count(data.financial_info),
     news |-> Count(data.news_info), json |-> json_output_file]

\* the rows appended to "Detailed Extracted Data"
DetailRows(data, error_message, run_id, req) ==
    IF IsError(error_message) THEN <<>>
    ELSE DetailRowsOf(data.subsidiaries, "Subsidiary", run_id, GetCompanyName(data), req)
         \o DetailRowsOf(data.financial_info, "Financial", run_id, GetCompanyName(data), req)
         \o DetailRowsOf(data.news_info, "News", run_id, GetCompanyName(data), req)

\* ----------------------------------------------------------- the run's state
VARIABLES
    pc,          \* where main is: "start", "dispatch", "loop", "join", "check",
                 \* "finished", "exited" (an early return), "crashed"
    args,        \* the parsed command line: company, csv_file
    config,      \* load_config(): PROMPT_TEMPLATES, COMPANY_RESEARCH_TIMEOUT_SECONDS
    csvRows,     \* what read_companies_from_csv returns for args.csv_file
    run_id,      \* current_run_id
    selected_prompt_version,
    companies,   \* the names main processes, in order
    cur,         \* index in companies of the request being processed (0: none yet)
    worker,      \* per request, its thread: "idle", "running", "stored", "done"
    holder,      \* the result_container dictionaries
    adapterDid,  \* per request, what extract_company_info did (history)
    extractCalls, \* per request, how many threads were started for it (history)
    joinSaw,     \* the thread's state when thread.join last returned (history)
    summary,     \* rows of the "Run Summary" sheet of output.xlsx
    details,     \* rows of the "Detailed Extracted Data" sheet
    jsonFiles,   \* the files of data/json_outputs: path -> content
    clock,       \* the last value datetime.now() returned, in seconds
    adProvider,  \* a direct call of extract_company_info: the adapter called
    adBackend,   \* ... what the provider's backend does with the request
    adPc,        \* ... "idle", "calling", "returned", "raised"
    adResult,    \* ... what the call returned or raised
    adCall,      \* ... the positional arguments of the call, after self
    adRequest,   \* ... the request the adapter sent to the backend
    stArgs,      \* the start of main with the real adapter classes: the command line
    stConfig,    \* ... load_config()
    stPc,        \* ... "idle", "args", "prompt", "construct", "run", "exited"
    ai_instance, \* ... the adapter constructed, or the exception of the constructor
    csvFile,     \* a call of read_companies_from_csv: the file at file_path
    csvPc,       \* ... "idle", "reading", "returned"
    csvResult,   \* ... the list returned
    lsProvider,  \* a call of list_available_models: the adapter called
    lsBackend,   \* ... the models the backend lists, and where the listing fails
    lsPc,        \* ... "idle", "listing", "caught", "listed", "returned"
    lsRead,      \* ... how many models the loop has read
    available_model_ids, \* ... the local list of the method
    lsResult,    \* ... the list returned
    lgHandlers,  \* calls of setup_logging: the handlers of the 'siya_agent' logger
    lgPc,        \* ... "idle", "ready" (no call under way), "clearing"
    lgCalls,     \* ... how many calls have been made
    lgLogFile,   \* ... whether the call under way, or the last one, was given log_file
    lgIter,      \* ... the position of the iterator of the loop of line 26
    iaPc,        \* main in interactive mode: "idle", "list", "choose", "prompt",
                 \* "dispatch", "processed", "finished", "exited"
    available_models,    \* ... what list_available_models() returned
    iaPreferred,         \* ... what get_preferred_model() returns
    preferred_model,     \* ... the local of that name
    model_choice_input,  \* ... the last thing input() gave
    chosen_model,        \* ... the local of that name
    iaModelUsed          \* ... the model name passed to process_single_company

mainVars ==
    <<pc, args, config, csvRows, run_id, selected_prompt_version, companies, cur, worker,
      holder, adapterDid, extractCalls, joinSaw, summary, details, jsonFiles, clock>>
adapterVars == <<adProvider, adBackend, adPc, adResult, adCall, adRequest>>
startupVars == <<stArgs, stConfig, stPc, ai_instance>>
csvVars == <<csvFile, csvPc, csvResult>>
listVars == <<lsProvider, lsBackend, lsPc, lsRead, available_model_ids, lsResult>>
loggingVars == <<lgHandlers, lgPc, lgCalls, lgLogFile, lgIter>>
interactiveVars ==
    <<iaPc, available_models, iaPreferred, preferred_model, model_choice_input, chosen_model,
      iaModelUsed>>
\* everything that is not the state of a run of main with its extraction threads
sideVars == <<adapterVars, startupVars, csvVars, listVars, loggingVars, interactiveVars>>
vars == <<mainVars, sideVars>>

Requests == 1..MaxCompanies

\* result_container = {'data': {}, 'error': None, 'completed': False}
NoneStr == [isNone |-> TRUE, s |-> <<>>]
Str(s) == [isNone |-> FALSE, s |-> s]
FreshHolder == [data |-> EmptyDict, error |-> NoneStr, completed |-> FALSE]

\* bool(result_container['error']): None and '' are falsy
TruthyError(err) == ~err.isNone /\ Len(err.s) > 0

\* variant: one container, allocated once and reused by every call
HolderOf_shared(i) == 1

\* The dictionary the thread of request i writes to: the one allocated by the
\* call of process_single_company that started it.
HolderOf(i) == i

\* variant: the thread is started and never joined
AfterThreadStart_noJoin == "loop"

\* Where main is after thread.start(): at thread.join(timeout=timeout_seconds).
AfterThreadStart == "join"

NothingYet == [did |-> "nothing", value |-> EmptyDict, msg |-> <<>>, isException |-> TRUE]

BoundedSeqs(S, n) == UNION {[1..k -> S] : k \in 0..n}

\* no direct adapter call is under way
NoResult == [raised |-> FALSE, exc |-> "", value |-> EmptyDict]
NoCall == [company_name |-> <<>>, model_name |-> <<>>, more |-> <<>>]
NoRequest ==
    [sent |-> FALSE, model |-> <<>>, system |-> <<>>, user |-> <<>>, temperature |-> 0,
     candidates |-> "unset", json_format |-> FALSE]
AdaptersIdle ==
    /\ adProvider = "none"
    /\ adBackend = [b |-> "none", value |-> EmptyDict]
    /\ adPc = "idle"
    /\ adResult = NoResult
    /\ adCall = NoCall
    /\ adRequest = NoRequest

\* main is not being started with the real adapter classes
NoArgs == [provider |-> "none", model |-> <<>>, prompt_version |-> <<>>]
NoConfig ==
    [OPENAI_API_KEY |-> <<>>, GOOGLE_API_KEY |-> <<>>, OLLAMA_BASE_URL |-> <<>>,
     DEFAULT_PROMPT_VERSION |-> <<>>, PROMPT_TEMPLATES |-> {}]
NoInstance == [class |-> "None", raised |-> "", caught |-> ""]
StartupIdle ==
    /\ stArgs = NoArgs
    /\ stConfig = NoConfig
    /\ stPc = "idle"
    /\ ai_instance = NoInstance

\* read_companies_from_csv is not being called
NoCsvFile == [exists |-> FALSE, rows |-> <<>>]
CsvIdle ==
    /\ csvFile = NoCsvFile
    /\ csvPc = "idle"
    /\ csvResult = <<>>

\* list_available_models is not being called
NoListing == [models |-> <<>>, failAt |-> 0]
ListingIdle ==
    /\ lsProvider = "none"
    /\ lsBackend = NoListing
    /\ lsPc = "idle"
    /\ lsRead = 0
    /\ available_model_ids = <<>>
    /\ lsResult = <<>>

\* setup_logging is not being called
LoggingIdle ==
    /\ lgHandlers = <<>>
    /\ lgPc = "idle"
    /\ lgCalls = 0
    /\ lgLogFile = FALSE
    /\ lgIter = 0

\* main is not running in interactive mode
NoModel == <<>>
NoInput == [raises |-> FALSE, text |-> <<>>]
InteractiveIdle ==
    /\ iaPc = "idle"
    /\ available_models = <<>>
    /\ iaPreferred = NoModel
    /\ preferred_model = NoModel
    /\ model_choice_input = NoInput
    /\ chosen_model = NoModel
    /\ iaModelUsed = NoModel

\* prompts.json either has the selected version or does not have it
PromptTemplateMaps == [{V1} -> Templates] \cup [{} -> Templates]

\* The state of main once the command line is parsed and the run id is drawn
\* (line 338), in non-interactive mode with --provider and --model given.  The
\* adapter class is a stand-in: its constructor succeeds or raises, and its
\* extract_company_info returns any payload, raises, or hangs.
Init ==
    /\ AdaptersIdle /\ StartupIdle /\ CsvIdle /\ ListingIdle /\ LoggingIdle /\ InteractiveIdle
    /\ pc = "start"
    /\ args \in [company : ArgCompanies, csv_file : BOOLEAN]
    /\ csvRows \in (IF ~Truthy(args.company) /\ args.csv_file
                    THEN BoundedSeqs(CompanyNames, MaxCompanies) ELSE {<<>>})
    /\ config \in [PROMPT_TEMPLATES : PromptTemplateMaps,
                   COMPANY_RESEARCH_TIMEOUT_SECONDS : {TimeoutSeconds}]
    /\ selected_prompt_version = V1
    /\ run_id \in RunIds
    /\ companies = <<>>
    /\ cur = 0
    /\ worker = [i \in Requests |-> "idle"]
    /\ holder = [i \in Requests |-> FreshHolder]
    /\ adapterDid = [i \in Requests |-> NothingYet]
    /\ extractCalls = [i \in Requests |-> 0]
    /\ joinSaw = "idle"
    /\ summary = <<>>
    /\ details = <<>>
    /\ jsonFiles = <<>>
    /\ clock = 0

\* ------------------------------------------------------------ _write_to_excel
\* the summary sheet after a call of _write_to_excel
SummaryAfter(data, ai_model_chosen, prompt_used, error_message, json_output_file, req) ==
    IF WriteRaises(data, error_message) THEN summary
    ELSE Append(summary, SummaryRow(data, ai_model_chosen, prompt_used, error_message,
                                    run_id, json_output_file, req))

\* the detail sheet after a call of _write_to_excel
DetailsAfter(data, error_message, req) ==
    IF WriteRaises(data, error_message) THEN details
    ELSE details \o DetailRows(data, error_message, run_id, req)

\* ------------------------------------------------------ process_single_company
\* variant: the container is read without the test of 'completed'
Outcome_ignoresCompleted(h, company_name, timeout_seconds) ==
    IF TruthyError(h.error)
    THEN [raises |-> FALSE, error_message |-> ExtractionErrorMessage(company_name, h.error.s),
          extracted_data |-> NameOnly(company_name), save |-> FALSE]
    ELSE [raises |-> InRaises(h.data),
          error_message |-> IF HasErrorKey(h.data)
                            THEN ModelErrorMessage(company_name, h.data.error.s)
                            ELSE NoError,
          extracted_data |-> h.data, save |-> ~InRaises(h.data)]

\* Lines 258-274: what the caller makes of the result container after the join.
\* raises: the test `"error" in extracted_data` raises TypeError.
Outcome(h, company_name, timeout_seconds) ==
    IF ~h.completed
    THEN [raises |-> FALSE, error_message |-> TimeoutMessage(company_name, timeout_seconds),
          extracted_data |-> NameOnly(company_name), save |-> FALSE]
    ELSE IF TruthyError(h.error)
    THEN [raises |-> FALSE, error_message |-> ExtractionErrorMessage(company_name, h.error.s),
          extracted_data |-> NameOnly(company_name), save |-> FALSE]
    ELSE IF InRaises(h.data)
    THEN [raises |-> TRUE, error_message |-> NoError, extracted_data |-> h.data, save |-> FALSE]
    ELSE [raises |-> FALSE,
          error_message |-> IF HasErrorKey(h.data)
                            THEN ModelErrorMessage(company_name, h.data.error.s)
                            ELSE NoError,
          extracted_data |-> h.data, save |-> TRUE]

\* main, lines 470-517: the selected prompt version must be a key of
\* PROMPT_TEMPLATES and the adapter must construct, or main returns
MainStart ==
    /\ pc = "start"
    /\ IF selected_prompt_version \notin DOMAIN config.PROMPT_TEMPLATES
       THEN pc' = "exited"
       ELSE \E constructed \in BOOLEAN : pc' = IF constructed THEN "dispatch" ELSE "exited"
    /\ UNCHANGED <<args, config, csvRows, run_id, selected_prompt_version, companies, cur,
                   worker, holder, adapterDid, extractCalls, joinSaw, summary, details,
                   jsonFiles, clock>>
    /\ UNCHANGED sideVars

\* main, lines 519-525 and 531-534: one company, a CSV file, or neither
MainDispatch ==
    /\ pc = "dispatch"
    /\ IF Truthy(args.company)
       THEN companies' = <<args.company>> /\ pc' = "loop"
       ELSE IF args.csv_file /\ csvRows # <<>>
       THEN companies' = csvRows /\ pc' = "loop"
       ELSE companies' = <<>> /\ pc' = "finished"
    /\ UNCHANGED <<args, config, csvRows, run_id, selected_prompt_version, cur, worker, holder,
                   adapterDid, extractCalls, joinSaw, summary, details, jsonFiles, clock>>
    /\ UNCHANGED sideVars

\* variant: the lookup hands out the entry and leaves an empty one behind
AfterGet_consumes(templates, prompt_version) ==
    [templates EXCEPT ![prompt_version] = EmptyTemplate]

\* config["PROMPT_TEMPLATES"] after .get(prompt_version) (line 240): get
\* returns the entry and leaves the dictionary as it is. The entry is handed
\* to the thread, which reads it with .get and passes strings to the adapter.
AfterGet(templates, prompt_version) == templates

\* main, lines 526-530, and process_single_company up to thread.start():
\* the next name is skipped when empty, recorded with an error when the prompt
\* entry is falsy, and otherwise handed to a new thread with a new container.
LoopStep ==
    /\ pc = "loop"
    /\ cur < Len(companies)
    /\ LET i == cur + 1
           company_name == companies[i]
           prompt_data == config.PROMPT_TEMPLATES[selected_prompt_version]
           error_message == PromptNotFoundMessage(selected_prompt_version)
           looked_up == [config EXCEPT !.PROMPT_TEMPLATES =
                                            AfterGet(@, selected_prompt_version)]
       IN  /\ cur' = i
           /\ config' = IF Truthy(company_name) THEN looked_up ELSE config
           /\ IF ~Truthy(company_name)
              THEN UNCHANGED <<pc, worker, holder, extractCalls, summary, details>>
              ELSE IF ~prompt_data.nonempty
              THEN /\ summary' = SummaryAfter(NameOnly(company_name), ModelName,
                                              selected_prompt_version, error_message, NoFile, i)
                   /\ details' = DetailsAfter(NameOnly(company_name), error_message, i)
                   /\ UNCHANGED <<pc, worker, holder, extractCalls>>
              ELSE /\ holder' = [holder EXCEPT ![HolderOf(i)] = FreshHolder]
                   /\ worker' = [worker EXCEPT ![i] = "running"]
                   /\ extractCalls' = [extractCalls EXCEPT ![i] = @ + 1]
                   /\ pc' = AfterThreadStart
                   /\ UNCHANGED <<summary, details>>
    /\ UNCHANGED <<args, csvRows, run_id, selected_prompt_version, companies,
                   adapterDid, joinSaw, jsonFiles, clock>>
    /\ UNCHANGED sideVars

\* variant: thread.join() without a timeout returns only once the thread has ended
JoinReturns_noTimeout ==
    /\ pc = "join"
    /\ worker[cur] = "done"
    /\ pc' = "check"
    /\ joinSaw' = worker[cur]
    /\ UNCHANGED <<args, config, csvRows, run_id, selected_prompt_version, companies, cur,
                   worker, holder, adapterDid, extractCalls, summary, details, jsonFiles, clock>>
    /\ UNCHANGED sideVars

\* thread.join(timeout=timeout_seconds) returns: the thread has ended or the
\* timeout has passed, whichever the wall clock brings first
JoinReturns ==
    /\ pc = "join"
    /\ pc' = "check"
    /\ joinSaw' = worker[cur]
    /\ UNCHANGED <<args, config, csvRows, run_id, selected_prompt_version, companies, cur,
                   worker, holder, adapterDid, extractCalls, summary, details, jsonFiles, clock>>
    /\ UNCHANGED sideVars

\* process_single_company, lines 258-281: read the container, save the JSON
\* record, append to the workbook; a TypeError leaves main through the loop.
\* datetime.now() in _save_raw_json_output reads a clock that never runs back.
CheckAndRecord ==
    /\ pc = "check"
    /\ LET company_name == companies[cur]
           h == holder[HolderOf(cur)]
           prompt_data == config.PROMPT_TEMPLATES[selected_prompt_version]
           prompt_used_text == replace(prompt_data.user_template, company_name)
           o == Outcome(h, company_name, config.COMPANY_RESEARCH_TIMEOUT_SECONDS)
       IN  /\ joinSaw' = "idle"
           /\ IF o.raises
              THEN /\ pc' = "crashed"
                   /\ UNCHANGED <<summary, details, jsonFiles, clock>>
              ELSE IF ~o.save
              THEN /\ pc' = "loop"
                   /\ summary' = SummaryAfter(o.extracted_data, ModelName, prompt_used_text,
                                              o.error_message, NoFile, cur)
                   /\ details' = DetailsAfter(o.extracted_data, o.error_message, cur)
                   /\ UNCHANGED <<jsonFiles, clock>>
              ELSE \E now \in clock..MaxClock :
                   LET path == FilePath(company_name, run_id, now)
                   IN  /\ pc' = "loop"
                       /\ clock' = now
                       /\ jsonFiles' = SaveRawJsonOutput(jsonFiles, path,
                                           JsonRecord(company_name, o.extracted_data, ModelName,
                                                      prompt_used_text, run_id))
                       /\ summary' = SummaryAfter(o.extracted_data, ModelName,
                                                  prompt_used_text, o.error_message, path, cur)
                       /\ details' = DetailsAfter(o.extracted_data, o.error_message, cur)
    /\ UNCHANGED <<args, config, csvRows, run_id, selected_prompt_version, companies, cur,
                   worker, holder, adapterDid, extractCalls>>
    /\ UNCHANGED sideVars

\* main, line 536: the loop is over
LoopEnd ==
    /\ pc = "loop"
    /\ cur = Len(companies)
    /\ pc' = "finished"
    /\ UNCHANGED <<args, config, csvRows, run_id, selected_prompt_version, companies, cur,
                   worker, holder, adapterDid, extractCalls, joinSaw, summary, details,
                   jsonFiles, clock>>
    /\ UNCHANGED sideVars

\* --------------------------------------------------- _run_extraction_in_thread
\* variant: the thread sets 'completed' as soon as the call has returned,
\* before the value is stored
WorkerReturns_completedFirst(i, v) ==
    /\ worker[i] = "running"
    /\ holder' = [holder EXCEPT ![HolderOf(i)].completed = TRUE]
    /\ worker' = [worker EXCEPT ![i] = "stored"]
    /\ adapterDid' = [adapterDid EXCEPT ![i] =
                        [did |-> "returned", value |-> v, msg |-> <<>>, isException |-> TRUE]]
    /\ UNCHANGED <<pc, args, config, csvRows, run_id, selected_prompt_version, companies, cur,
                   extractCalls, joinSaw, summary, details, jsonFiles, clock>>
    /\ UNCHANGED sideVars

\* line 224: extract_company_info returned v
WorkerReturns(i, v) ==
    /\ worker[i] = "running"
    /\ holder' = [holder EXCEPT ![HolderOf(i)].data = v]
    /\ worker' = [worker EXCEPT ![i] = "stored"]
    /\ adapterDid' = [adapterDid EXCEPT ![i] =
                        [did |-> "returned", value |-> v, msg |-> <<>>, isException |-> TRUE]]
    /\ UNCHANGED <<pc, args, config, csvRows, run_id, selected_prompt_version, companies, cur,
                   extractCalls, joinSaw, summary, details, jsonFiles, clock>>
    /\ UNCHANGED sideVars

\* lines 225-226: extract_company_info raised e; `except Exception` stores
\* str(e), anything else passes through to the finally clause
WorkerRaises(i, e) ==
    /\ worker[i] = "running"
    /\ holder' = IF e.isException
                 THEN [holder EXCEPT ![HolderOf(i)].error = Str(e.msg)]
                 ELSE holder
    /\ worker' = [worker EXCEPT ![i] = "stored"]
    /\ adapterDid' = [adapterDid EXCEPT ![i] =
                        [did |-> "raised", value |-> EmptyDict, msg |-> e.msg,
                         isException |-> e.isException]]
    /\ UNCHANGED <<pc, args, config, csvRows, run_id, selected_prompt_version, companies, cur,
                   extractCalls, joinSaw, summary, details, jsonFiles, clock>>
    /\ UNCHANGED sideVars

\* variant: a thread that ends after its request was given up reports its
\* result to the workbook itself
WorkerCompletes_persists(i) ==
    /\ worker[i] = "stored"
    /\ holder' = [holder EXCEPT ![HolderOf(i)].completed = TRUE]
    /\ worker' = [worker EXCEPT ![i] = "done"]
    /\ summary' = IF i < cur \/ pc \in {"loop", "finished"}
                  THEN SummaryAfter(holder[HolderOf(i)].data, ModelName, <<>>, NoError, NoFile, i)
                  ELSE summary
    /\ UNCHANGED <<pc, args, config, csvRows, run_id, selected_prompt_version, companies, cur,
                   adapterDid, extractCalls, joinSaw, details, jsonFiles, clock>>
    /\ UNCHANGED sideVars

\* lines 227-228: the finally clause
WorkerCompletes(i) ==
    /\ worker[i] = "stored"
    /\ holder' = [holder EXCEPT ![HolderOf(i)].completed = TRUE]
    /\ worker' = [worker EXCEPT ![i] = "done"]
    /\ UNCHANGED <<pc, args, config, csvRows, run_id, selected_prompt_version, companies, cur,
                   adapterDid, extractCalls, joinSaw, summary, details, jsonFiles, clock>>
    /\ UNCHANGED sideVars

Next ==
    \/ MainStart
    \/ MainDispatch
    \/ LoopStep
    \/ JoinReturns
    \/ CheckAndRecord
    \/ LoopEnd
    \/ \E i \in Requests, v \in Payloads : WorkerReturns(i, v)
    \/ \E i \in Requests, e \in Exceptions : WorkerRaises(i, e)
    \/ \E i \in Requests : WorkerCompletes(i)

Spec == Init /\ [][Next]_vars

\* the steps of the main thread
MainStep ==
    \/ MainStart
    \/ MainDispatch
    \/ LoopStep
    \/ JoinReturns
    \/ CheckAndRecord
    \/ LoopEnd

\* the answers of an extract call that main's control flow tells apart: a
\* value it records, a value on which it dies, an exception
LivePayloads == {FullPayload, NonDict("number")}
LiveExceptions == {[isException |-> TRUE, msg |-> Boom]}

NextLive ==
    \/ MainStep
    \/ \E i \in Requests, v \in LivePayloads : WorkerReturns(i, v)
    \/ \E i \in Requests, e \in LiveExceptions : WorkerRaises(i, e)
    \/ \E i \in Requests : WorkerCompletes(i)

\* The main thread keeps running while it has a step to take, and a timed
\* join returns when its timeout has passed.  Nothing is assumed of the
\* extraction threads: an extract call may never return.
LiveSpec == Init /\ [][NextLive]_vars /\ WF_vars(MainStep)

\* ======================================================== provider adapters
\* A direct call of extract_company_info(company_name, model_name) of one
\* adapter, as the adapters' own __main__ blocks make it.
Providers == {"openai", "google_ai", "ollama"}

\* What the backend does with the one request of the call:
\*   auth_error                  the credentials are rejected (HTTP 401)
\*   status_error_non_json_body  an HTTP error status whose body is not JSON
\*   connection_error, timeout   the transport fails
\*   invalid_response            a 200 response the client cannot decode
\*   no_choices                  a decoded response without the text part
\*   null_content                a decoded response whose text is null
\*   text_not_json               the text is not JSON
\*   json                        the text is JSON and parses to value
BackendFailures ==
    {"auth_error", "status_error_non_json_body", "connection_error", "timeout",
     "invalid_response", "no_choices", "null_content", "text_not_json"}
BackendBehaviours ==
    {[b |-> f, value |-> EmptyDict] : f \in BackendFailures}
        \cup {[b |-> "json", value |-> v] : v \in Payloads}

\* the classes an exception of class c is an instance of
Supers(c) ==
    CASE c = "AuthenticationError" -> {c, "APIStatusError", "APIError", "Exception"}
      [] c = "InternalServerError" -> {c, "APIStatusError", "APIError", "Exception"}
      [] c = "APITimeoutError" -> {c, "APIConnectionError", "APIError", "Exception"}
      [] c = "APIConnectionError" -> {c, "APIError", "Exception"}
      [] c = "APIResponseValidationError" -> {c, "APIError", "Exception"}
      [] c = "JSONDecodeError" -> {c, "ValueError", "Exception"}
      [] c = "requests.ConnectionError" -> {c, "RequestException", "Exception"}
      [] c = "requests.Timeout" -> {c, "RequestException", "Exception"}
      [] c = "requests.HTTPError" -> {c, "RequestException", "Exception"}
      [] c = "requests.JSONDecodeError" ->
             {c, "RequestException", "JSONDecodeError", "ValueError", "Exception"}
      [] OTHER -> {c, "Exception"}
IsInstance(c, class) == class \in Supers(c)

Returns(v) == [raised |-> FALSE, exc |-> "", value |-> v]
Raises(c) == [raised |-> TRUE, exc |-> c, value |-> EmptyDict]
ErrorResult(text) == Returns(ErrorDict(<<text>>))

\* OpenAIModel.extract_company_info, the try body (lines 78-95): the value
\* returned or the exception raised, whether the response of an APIStatusError
\* has a JSON body, and whether `import json` (line 92) has run, which is
\* what binds the function's local name json.
OpenAI_try(backend) ==
    LET out(c, bound, body) ==
            [raised |-> TRUE, exc |-> c, value |-> EmptyDict, jsonBound |-> bound,
             bodyIsJson |-> body]
    IN  CASE backend.b = "auth_error" -> out("AuthenticationError", FALSE, TRUE)
          [] backend.b = "status_error_non_json_body" -> out("InternalServerError", FALSE, FALSE)
          [] backend.b = "connection_error" -> out("APIConnectionError", FALSE, FALSE)
          [] backend.b = "timeout" -> out("APITimeoutError", FALSE, FALSE)
          [] backend.b = "invalid_response" -> out("APIResponseValidationError", FALSE, FALSE)
          [] backend.b = "no_choices" -> out("IndexError", FALSE, FALSE)
          [] backend.b = "null_content" -> out("TypeError", TRUE, FALSE)
          [] backend.b = "text_not_json" -> out("JSONDecodeError", TRUE, FALSE)
          [] OTHER -> [raised |-> FALSE, exc |-> "", value |-> backend.value,
                       jsonBound |-> TRUE, bodyIsJson |-> FALSE]

\* OpenAIModel.extract_company_info: the except clauses are tried in order;
\* e.response.json() raises for a body that is not JSON, and the expression
\* json.JSONDecodeError of the third clause raises UnboundLocalError when the
\* local name json is not bound yet.
OpenAI_extract_company_info(backend) ==
    LET t == OpenAI_try(backend)
    IN  IF ~t.raised THEN Returns(t.value)
        ELSE IF IsInstance(t.exc, "APIStatusError")
        THEN (IF t.bodyIsJson THEN ErrorResult("OpenAI API error") ELSE Raises("JSONDecodeError"))
        ELSE IF IsInstance(t.exc, "APIConnectionError")
        THEN ErrorResult("OpenAI API connection error")
        ELSE IF ~t.jsonBound THEN Raises("UnboundLocalError")
        ELSE IF IsInstance(t.exc, "JSONDecodeError") THEN ErrorResult("JSON parsing error")
        ELSE ErrorResult("Unexpected error")

\* GoogleAIModel.extract_company_info, the try body (lines 61-92)
GoogleAI_try(backend) ==
    CASE backend.b \in {"auth_error", "status_error_non_json_body", "connection_error",
                        "timeout", "invalid_response"} -> Raises("GoogleAPIError")
      [] backend.b \in {"no_choices", "null_content"} -> Raises("ValueError")
      [] backend.b = "text_not_json" -> Raises("JSONDecodeError")
      [] OTHER -> Returns(backend.value)

\* GoogleAIModel.extract_company_info (lines 93-101); json is a module import
GoogleAI_extract_company_info(backend) ==
    LET t == GoogleAI_try(backend)
    IN  IF ~t.raised THEN t
        ELSE IF IsInstance(t.exc, "ValueError") THEN ErrorResult("Google AI Model error")
        ELSE IF IsInstance(t.exc, "JSONDecodeError") THEN ErrorResult("JSON parsing error")
        ELSE ErrorResult("Unexpected error")

\* OllamaModel._make_api_request("/api/chat", "POST", json_data): the parsed
\* body, or the exception the request's failure is turned into
Ollama_make_api_request(backend) ==
    LET sent ==
            CASE backend.b = "connection_error" -> Raises("requests.ConnectionError")
              [] backend.b = "timeout" -> Raises("requests.Timeout")
              [] backend.b \in {"auth_error", "status_error_non_json_body"} ->
                     Raises("requests.HTTPError")
              [] backend.b = "invalid_response" -> Raises("requests.JSONDecodeError")
              [] OTHER -> Returns(backend.value)
    IN  IF ~sent.raised THEN sent
        ELSE IF IsInstance(sent.exc, "requests.ConnectionError") THEN Raises("ConnectionError")
        ELSE IF IsInstance(sent.exc, "requests.Timeout") THEN Raises("TimeoutError")
        ELSE IF IsInstance(sent.exc, "RequestException") THEN Raises("RuntimeError")
        ELSE IF IsInstance(sent.exc, "JSONDecodeError") THEN Raises("ValueError")
        ELSE sent

\* OllamaModel.extract_company_info, the try body (lines 102-124)
Ollama_try(backend) ==
    LET r == Ollama_make_api_request(backend)
    IN  IF r.raised THEN r
        ELSE CASE backend.b = "no_choices" -> Raises("JSONDecodeError")
               [] backend.b = "null_content" -> Raises("TypeError")
               [] backend.b = "text_not_json" -> Raises("JSONDecodeError")
               [] OTHER -> Returns(backend.value)

\* OllamaModel.extract_company_info (lines 125-133)
Ollama_extract_company_info(backend) ==
    LET t == Ollama_try(backend)
    IN  IF ~t.raised THEN t
        ELSE IF \/ IsInstance(t.exc, "ConnectionError") \/ IsInstance(t.exc, "TimeoutError")
                \/ IsInstance(t.exc, "RuntimeError")
        THEN ErrorResult("Ollama API communication error")
        ELSE IF IsInstance(t.exc, "JSONDecodeError") THEN ErrorResult("JSON parsing error")
        ELSE ErrorResult("Unexpected error")

extract_company_info(provider, backend) ==
    CASE provider = "openai" -> OpenAI_extract_company_info(backend)
      [] provider = "google_ai" -> GoogleAI_extract_company_info(backend)
      [] OTHER -> Ollama_extract_company_info(backend)

\* the main program is not running
MainIdle ==
    /\ pc = "off"
    /\ args = [company |-> EmptyName, csv_file |-> FALSE]
    /\ csvRows = <<>>
    /\ config = [PROMPT_TEMPLATES |-> [v \in {V1} |-> ValidTemplate],
                 COMPANY_RESEARCH_TIMEOUT_SECONDS |-> TimeoutSeconds]
    /\ selected_prompt_version = V1
    /\ run_id \in RunIds
    /\ companies = <<>>
    /\ cur = 0
    /\ worker = [i \in Requests |-> "idle"]
    /\ holder = [i \in Requests |-> FreshHolder]
    /\ adapterDid = [i \in Requests |-> NothingYet]
    /\ extractCalls = [i \in Requests |-> 0]
    /\ joinSaw = "idle"
    /\ summary = <<>>
    /\ details = <<>>
    /\ jsonFiles = <<>>
    /\ clock = 0

\* ------------------------------------------------- the call and its request
\* extract_company_info(company_name, model_name), as the __main__ block of
\* each adapter module calls it
DirectCalls ==
    {[company_name |-> n, model_name |-> ModelName, more |-> <<>>] : n \in {Acme, AcmeBang}}

\* _run_extraction_in_thread (main.py 218-223): the call carries two more
\* positional arguments, prompt_data.get("user_template", "") and
\* prompt_data.get("system_message", ""); the thread is started only for a
\* prompt_data that is not empty (main.py 242)
RunnerCalls ==
    {[company_name |-> n, model_name |-> ModelName,
      more |-> <<t.user_template, t.system_message>>] :
        n \in {Acme, AcmeBang}, t \in {u \in Templates : u.nonempty}}

\* Binding the arguments to `def extract_company_info(self, company_name:
\* str, model_name: str)`: the three adapters declare the same parameters,
\* without defaults and without *args, so any further positional argument
\* makes the call raise TypeError before the body runs.
Accepts(provider, call) == Len(call.more) = 0

\* the f-string `prompt` of the method: fixed text around the company name,
\* which appears twice (the same text in the three adapters)
BuiltInPrompt(company_name) ==
    <<"Based on your internal knowledge, provide the following information for ">>
        \o company_name \o <<": ... {\"company_name\": \"">> \o company_name
        \o <<"\", ... do not perform any external searches.">>

\* the content of the message of role "system": OpenAI line 82, Ollama line
\* 109; the Google request has no system text
BuiltInSystemText(provider) ==
    CASE provider = "openai" -> <<"You are a highly knowledgeable ... verifiable data.">>
      [] provider = "ollama" ->
             <<"You are a highly knowledgeable ... verifiable data.",
               " Respond only with the requested JSON object.">>
      [] OTHER -> <<>>

\* temperature=0.1, in tenths
Temperature == 1

\* The request of the method. candidates is the number of candidates asked
\* for: candidate_count=1 for Google; OpenAI passes no n and Ollama's
\* request has no such field. json_format is the request parameter asking for
\* JSON output: response_format={"type": "json_object"} for OpenAI,
\* response_mime_type="application/json" for Google; the Ollama request has
\* "stream" and "options" only, and no "format".
RequestSent(provider, call) ==
    [sent |-> TRUE,
     model |-> call.model_name,
     system |-> BuiltInSystemText(provider),
     user |-> BuiltInPrompt(call.company_name),
     temperature |-> Temperature,
     candidates |-> IF provider = "google_ai" THEN "one" ELSE "unset",
     json_format |-> provider \in {"openai", "google_ai"}]

\* The backend's API has a request parameter that asks for JSON output:
\* response_format of OpenAI's chat completions, response_mime_type of
\* Gemini's generation config, "format": "json" of Ollama's /api/chat (the
\* endpoint of line 118).
BackendTakesJsonFormat(provider) == provider \in {"openai", "google_ai", "ollama"}

InitAdapters ==
    /\ MainIdle /\ StartupIdle /\ CsvIdle /\ ListingIdle /\ LoggingIdle /\ InteractiveIdle
    /\ adProvider \in Providers
    /\ adBackend \in BackendBehaviours
    /\ adPc = "idle"
    /\ adResult = NoResult
    /\ adCall \in DirectCalls
    /\ adRequest = NoRequest

\* the caller enters extract_company_info and the request goes out
AdapterCall ==
    /\ adPc = "idle"
    /\ Accepts(adProvider, adCall)
    /\ adPc' = "calling"
    /\ adRequest' = RequestSent(adProvider, adCall)
    /\ UNCHANGED <<adProvider, adBackend, adResult, adCall, mainVars, startupVars, csvVars,
                   listVars,
                   loggingVars, interactiveVars>>

\* the backend has answered or failed, and the call returns or raises
AdapterFinish ==
    /\ adPc = "calling"
    /\ adResult' = extract_company_info(adProvider, adBackend)
    /\ adPc' = IF adResult'.raised THEN "raised" ELSE "returned"
    /\ UNCHANGED <<adProvider, adBackend, adCall, adRequest, mainVars, startupVars, csvVars,
                   listVars,
                   loggingVars, interactiveVars>>

NextAdapters ==
    \/ AdapterCall
    \/ AdapterFinish

SpecAdapters == InitAdapters /\ [][NextAdapters]_vars

\* ------------------------------------- the runner's call of a real adapter
\* _run_extraction_in_thread with an instance of one of the three adapter
\* classes, from its start to the end of its finally clause
InitRunnerCall ==
    /\ MainIdle /\ StartupIdle /\ CsvIdle /\ ListingIdle /\ LoggingIdle /\ InteractiveIdle
    /\ adProvider \in Providers
    /\ adBackend \in BackendBehaviours
    /\ adPc = "idle"
    /\ adResult = NoResult
    /\ adCall \in RunnerCalls
    /\ adRequest = NoRequest

\* Lines 216-228: the call is made inside try; an exception of the call, the
\* TypeError of the binding included, is caught by `except Exception` and its
\* text stored as the error; finally sets completed.
RunExtractionInThread ==
    /\ adPc = "idle"
    /\ IF Accepts(adProvider, adCall)
       THEN /\ adRequest' = RequestSent(adProvider, adCall)
            /\ adResult' = extract_company_info(adProvider, adBackend)
       ELSE /\ adRequest' = NoRequest
            /\ adResult' = Raises("TypeError")
    /\ adPc' = "completed"
    /\ UNCHANGED <<adProvider, adBackend, adCall, mainVars, startupVars, csvVars, listVars,
                   loggingVars, interactiveVars>>

NextRunnerCall == RunExtractionInThread

SpecRunnerCall == InitRunnerCall /\ [][NextRunnerCall]_vars

\* ============================================== main with the real adapters
\* The non-interactive start of main (lines 470-517) with the adapter classes
\* of src/ai_models, up to the point where the companies would be processed.
ApiKey == <<"k">>
BaseUrl == <<"u">>

StartArgs ==
    [provider : {"none"} \cup Providers, model : {<<>>, ModelName}, prompt_version : {<<>>, V1}]

\* load_config(): os.getenv gives None for a variable that is not set and ''
\* for one set to nothing (both <<>> here); OLLAMA_BASE_URL has a default
StartConfigs ==
    [OPENAI_API_KEY : {<<>>, ApiKey}, GOOGLE_API_KEY : {<<>>, ApiKey},
     OLLAMA_BASE_URL : {<<>>, BaseUrl}, DEFAULT_PROMPT_VERSION : {<<>>, V1},
     PROMPT_TEMPLATES : {{}, {V1}}]

Constructed(class) == [class |-> class, raised |-> "", caught |-> ""]
ConstructorRaises(c) == [class |-> "None", raised |-> c, caught |-> ""]

\* AIBaseModel.__init__: base.py never imports logging, so the name logging
\* of line 22 is unbound when the constructor runs
AIBaseModel_init(cfg) == ConstructorRaises("NameError")

\* OpenAIModel.__init__
OpenAIModel_init(cfg) ==
    LET base == AIBaseModel_init(cfg)
    IN  IF base.raised # "" THEN base
        ELSE IF ~Truthy(cfg.OPENAI_API_KEY) THEN ConstructorRaises("ValueError")
        ELSE Constructed("OpenAIModel")

\* GoogleAIModel.__init__
GoogleAIModel_init(cfg) ==
    LET base == AIBaseModel_init(cfg)
    IN  IF base.raised # "" THEN base
        ELSE IF ~Truthy(cfg.GOOGLE_API_KEY) THEN ConstructorRaises("ValueError")
        ELSE Constructed("GoogleAIModel")

\* OllamaModel.__init__
OllamaModel_init(cfg) ==
    LET base == AIBaseModel_init(cfg)
    IN  IF base.raised # "" THEN base
        ELSE IF ~Truthy(cfg.OLLAMA_BASE_URL) THEN ConstructorRaises("ValueError")
        ELSE Constructed("OllamaModel")

\* main, lines 493-511: the constructor chosen by --provider, inside the try
\* whose except clauses log and return
ConstructAdapter(provider, cfg) ==
    LET made == CASE provider = "openai" -> OpenAIModel_init(cfg)
                  [] provider = "google_ai" -> GoogleAIModel_init(cfg)
                  [] OTHER -> OllamaModel_init(cfg)
    IN  IF made.raised = "" THEN made
        ELSE IF IsInstance(made.raised, "ValueError") THEN [made EXCEPT !.caught = "ValueError"]
        ELSE IF IsInstance(made.raised, "ConnectionError")
        THEN [made EXCEPT !.caught = "ConnectionError"]
        ELSE [made EXCEPT !.caught = "Exception"]

\* main, lines 479-489: the prompt version of the command line or the default
\* one, or <<>> when main returns because it is not a key of PROMPT_TEMPLATES
SelectPromptVersion(a, cfg) ==
    IF Truthy(a.prompt_version)
    THEN (IF a.prompt_version \in cfg.PROMPT_TEMPLATES THEN a.prompt_version ELSE <<>>)
    ELSE IF Truthy(cfg.DEFAULT_PROMPT_VERSION)
            /\ cfg.DEFAULT_PROMPT_VERSION \in cfg.PROMPT_TEMPLATES
    THEN cfg.DEFAULT_PROMPT_VERSION
    ELSE <<>>

InitStartup ==
    /\ MainIdle /\ AdaptersIdle /\ CsvIdle /\ ListingIdle /\ LoggingIdle /\ InteractiveIdle
    /\ stArgs \in StartArgs
    /\ stConfig \in StartConfigs
    /\ stPc = "args"
    /\ ai_instance = NoInstance

\* variant: only --provider is required
RequiredArgsGiven_providerOnly(a) == a.provider # "none"

\* main, lines 471-477: `not args.provider` and `not args.model` both fail
RequiredArgsGiven(a) == a.provider # "none" /\ Truthy(a.model)

\* main, lines 470-491: --provider and --model are required, and the prompt
\* version must be a key of PROMPT_TEMPLATES
StartupCheckArgs ==
    /\ stPc = "args"
    /\ stPc' = IF ~RequiredArgsGiven(stArgs) THEN "exited"
               ELSE IF ~Truthy(SelectPromptVersion(stArgs, stConfig)) THEN "exited"
               ELSE "construct"
    /\ UNCHANGED <<stArgs, stConfig, ai_instance, mainVars, adapterVars, csvVars, listVars,
                   loggingVars, interactiveVars>>

\* main, lines 493-517: the adapter is constructed, or main logs and returns
StartupConstruct ==
    /\ stPc = "construct"
    /\ ai_instance' = ConstructAdapter(stArgs.provider, stConfig)
    /\ stPc' = IF ai_instance'.raised = "" THEN "run" ELSE "exited"
    /\ UNCHANGED <<stArgs, stConfig, mainVars, adapterVars, csvVars, listVars,
                   loggingVars, interactiveVars>>

NextStartup ==
    \/ StartupCheckArgs
    \/ StartupConstruct

SpecStartup == InitStartup /\ [][NextStartup]_vars

\* ================================================== read_companies_from_csv
\* A call of read_companies_from_csv(file_path) on a file of two-column rows,
\* as the self-test of utils.py writes them.
RECURSIVE lstrip(_)
\* str.lstrip(): leading whitespace removed
lstrip(s) == IF Len(s) > 0 /\ s[1] = " " THEN lstrip(Tail(s)) ELSE s

\* str.strip()
strip(s) == lstrip(rstrip(s))

\* the text of a cell: empty, a space, a name, a name with spaces around it
CsvCells == {<<>>, <<" ">>, <<"A">>, <<" ", "A", " ">>}
CsvRowsOfFile == [first : CsvCells, other : {<<>>, <<"x">>}]
CsvFiles ==
    {NoCsvFile} \cup {[exists |-> TRUE, rows |-> r] : r \in BoundedSeqs(CsvRowsOfFile, MaxCsvRows)}

\* pd.read_csv(..., header=None) then df.iloc[:, 0]: an empty cell is read as
\* NaN, any other cell as its text
NaN == [isNaN |-> TRUE, s |-> <<>>]
Text(s) == [isNaN |-> FALSE, s |-> s]
FirstColumn(rows) ==
    [k \in 1..Len(rows) |-> IF rows[k].first = <<>> THEN NaN ELSE Text(rows[k].first)]

\* Series.astype(str): NaN becomes the text 'nan', or stays missing with the
\* string dtype of the newer pandas
astype_str(column, keepsNaN) ==
    [k \in 1..Len(column) |->
        IF column[k].isNaN /\ ~keepsNaN THEN Text(<<"n", "a", "n">>) ELSE column[k]]

\* Series.dropna().tolist()
dropna_tolist(column) ==
    LET kept == SelectSeq(column, LAMBDA v : ~v.isNaN)
    IN  [k \in 1..Len(kept) |-> kept[k].s]

\* line 34: [company.strip() for company in companies if company.strip()]
StripAndFilter(names) ==
    LET kept == SelectSeq(names, LAMBDA n : Truthy(strip(n)))
    IN  [k \in 1..Len(kept) |-> strip(kept[k])]

\* read_companies_from_csv: a missing file and a file without data give []
read_companies_from_csv(file, keepsNaN) ==
    IF ~file.exists THEN <<>>
    ELSE IF file.rows = <<>> THEN <<>>
    ELSE StripAndFilter(dropna_tolist(astype_str(FirstColumn(file.rows), keepsNaN)))

InitCsv ==
    /\ MainIdle /\ AdaptersIdle /\ StartupIdle /\ ListingIdle /\ LoggingIdle /\ InteractiveIdle
    /\ csvFile \in CsvFiles
    /\ csvPc = "idle"
    /\ csvResult = <<>>

\* the caller enters read_companies_from_csv
CsvCall ==
    /\ csvPc = "idle"
    /\ csvPc' = "reading"
    /\ UNCHANGED <<csvFile, csvResult, mainVars, adapterVars, startupVars, listVars,
                   loggingVars, interactiveVars>>

\* the function returns its list; which pandas is installed decides astype(str)
CsvReturn ==
    /\ csvPc = "reading"
    /\ \E keepsNaN \in BOOLEAN : csvResult' = read_companies_from_csv(csvFile, keepsNaN)
    /\ csvPc' = "returned"
    /\ UNCHANGED <<csvFile, mainVars, adapterVars, startupVars, listVars,
                   loggingVars, interactiveVars>>

NextCsv ==
    \/ CsvCall
    \/ CsvReturn

SpecCsv == InitCsv /\ [][NextCsv]_vars

\* ===================================================== list_available_models
\* A call of list_available_models() of one adapter.  A model name is a
\* sequence of tokens; the backend lists the models in lsBackend.models and,
\* when lsBackend.failAt = k > 0, its transport fails (credentials rejected,
\* connection lost) at the fetch that would deliver the k-th model.
ListedModel(name) == [name |-> name, supported_generation_methods |-> {"generateContent"}]
BackendModels ==
    {ListedModel(<<"gpt">>), ListedModel(<<"gemini">>),
     ListedModel(<<"llama2", ":", "latest">>), ListedModel(<<"llama2", ":", "7b">>)}
Listings ==
    UNION {[models : {m}, failAt : 0..(Len(m) + 1)] : m \in BoundedSeqs(BackendModels, MaxModels)}

\* the position of a name in the order Python gives to str
NameRank(name) ==
    CASE name = <<"gemini">> -> 1
      [] name = <<"gpt">> -> 2
      [] name = <<"llama2">> -> 3
      [] name = <<"llama2", ":", "7b">> -> 4
      [] OTHER -> 5

RECURSIVE sorted(_)
\* sorted(list(S)) of a set of names
sorted(S) ==
    IF S = {} THEN <<>>
    ELSE LET least == CHOOSE x \in S : \A y \in S : NameRank(x) <= NameRank(y)
         IN  <<least>> \o sorted(S \ {least})

\* set(available_model_ids)
set(ids) == {ids[k] : k \in 1..Len(ids)}

\* `"gpt" in name`
Contains(name, token) == \E k \in 1..Len(name) : name[k] = token

RECURSIVE BeforeColon(_)
\* name.split(":")[0]
BeforeColon(name) ==
    IF name = <<>> \/ Head(name) = ":" THEN <<>> ELSE <<Head(name)>> \o BeforeColon(Tail(name))

\* OpenAIModel.list_available_models, lines 41-42: the filter of the loop
OpenAI_keeps(model) ==
    \/ Contains(model.name, "gpt") \/ Contains(model.name, "davinci")
    \/ Contains(model.name, "babbage") \/ Contains(model.name, "curie")
    \/ Contains(model.name, "ada")

\* GoogleAIModel.list_available_models, lines 38-40
GoogleAI_keeps(model) ==
    /\ "generateContent" \in model.supported_generation_methods
    /\ (Contains(model.name, "gemini") \/ Contains(model.name, "text-bison"))

\* what the loop body appends for one model, if anything
Appended(provider, model) ==
    CASE provider = "openai" -> IF OpenAI_keeps(model) THEN <<model.name>> ELSE <<>>
      [] provider = "google_ai" -> IF GoogleAI_keeps(model) THEN <<model.name>> ELSE <<>>
      [] OTHER -> <<BeforeColon(model.name)>>

\* client.models.list() and _make_api_request("/api/tags") fetch the whole
\* listing in one request, before the loop; genai.list_models() is a generator
\* that fetches as the loop reads
FetchedUpFront(provider) == provider \in {"openai", "ollama"}

InitListing ==
    /\ MainIdle /\ AdaptersIdle /\ StartupIdle /\ CsvIdle /\ LoggingIdle /\ InteractiveIdle
    /\ lsProvider \in Providers
    /\ lsBackend \in Listings
    /\ lsPc = "idle"
    /\ lsRead = 0
    /\ available_model_ids = <<>>
    /\ lsResult = <<>>

\* the try block is entered; a listing fetched up front is fetched here, and
\* a failure of that request is caught by the except clauses
ListCall ==
    /\ lsPc = "idle"
    /\ lsPc' = IF FetchedUpFront(lsProvider) /\ lsBackend.failAt > 0 THEN "caught"
               ELSE "listing"
    /\ UNCHANGED <<lsProvider, lsBackend, lsRead, available_model_ids, lsResult,
                   mainVars, adapterVars, startupVars, csvVars,
                   loggingVars, interactiveVars>>

\* one round of the for loop: the next model is read and kept or not; the
\* generator of Google AI raises when its fetch fails, and the loop is left
\* through `except Exception`
ListRead ==
    /\ lsPc = "listing"
    /\ lsRead < Len(lsBackend.models)
    /\ IF ~FetchedUpFront(lsProvider) /\ lsBackend.failAt = lsRead + 1
       THEN lsPc' = "caught" /\ UNCHANGED <<lsRead, available_model_ids>>
       ELSE /\ lsRead' = lsRead + 1
            /\ available_model_ids' =
                   available_model_ids \o Appended(lsProvider, lsBackend.models[lsRead + 1])
            /\ UNCHANGED lsPc
    /\ UNCHANGED <<lsProvider, lsBackend, lsResult, mainVars, adapterVars, startupVars, csvVars,
                   loggingVars, interactiveVars>>

\* the listing is exhausted: the loop ends, or the generator's last fetch fails
ListEnd ==
    /\ lsPc = "listing"
    /\ lsRead = Len(lsBackend.models)
    /\ lsPc' = IF ~FetchedUpFront(lsProvider) /\ lsBackend.failAt = lsRead + 1 THEN "caught"
               ELSE "listed"
    /\ UNCHANGED <<lsProvider, lsBackend, lsRead, available_model_ids, lsResult,
                   mainVars, adapterVars, startupVars, csvVars,
                   loggingVars, interactiveVars>>

\* variant: the local list is returned as the loop filled it
ListReturn_asRead ==
    /\ lsPc \in {"caught", "listed"}
    /\ lsResult' = available_model_ids
    /\ lsPc' = "returned"
    /\ UNCHANGED <<lsProvider, lsBackend, lsRead, available_model_ids,
                   mainVars, adapterVars, startupVars, csvVars,
                   loggingVars, interactiveVars>>

\* return sorted(list(set(available_model_ids)))
ListReturn ==
    /\ lsPc \in {"caught", "listed"}
    /\ lsResult' = sorted(set(available_model_ids))
    /\ lsPc' = "returned"
    /\ UNCHANGED <<lsProvider, lsBackend, lsRead, available_model_ids,
                   mainVars, adapterVars, startupVars, csvVars,
                   loggingVars, interactiveVars>>

NextListing ==
    \/ ListCall
    \/ ListRead
    \/ ListEnd
    \/ ListReturn

SpecListing == InitListing /\ [][NextListing]_vars

\* ============================================================ setup_logging
\* Calls of setup_logging(log_level, log_file) made one after the other in
\* one process, where logging.getLogger('siya_agent') is one object.
MaxSetupCalls == 6

\* a StreamHandler ("console") or FileHandler ("file"), and the call that made it
Handler(kind, call) == [kind |-> kind, call |-> call]

\* logger.removeHandler(h), for the handler at position k of logger.handlers
RemoveAt(handlers, k) == SubSeq(handlers, 1, k - 1) \o SubSeq(handlers, k + 1, Len(handlers))

\* the interpreter has just started: the logger has no handler
InitLogging ==
    /\ MainIdle /\ AdaptersIdle /\ StartupIdle /\ CsvIdle /\ ListingIdle /\ InteractiveIdle
    /\ lgHandlers = <<>>
    /\ lgPc = "ready"
    /\ lgCalls = 0
    /\ lgLogFile = FALSE
    /\ lgIter = 0

\* lines 16-26: a call begins, and the for statement takes an iterator over
\* the list logger.handlers itself
SetupLoggingEnter ==
    /\ lgPc = "ready"
    /\ lgCalls < MaxSetupCalls
    /\ \E log_file \in BOOLEAN : lgLogFile' = log_file
    /\ lgCalls' = lgCalls + 1
    /\ lgIter' = 0
    /\ lgPc' = "clearing"
    /\ UNCHANGED <<lgHandlers, mainVars, adapterVars, startupVars, csvVars, listVars,
                   interactiveVars>>

\* lines 26-27, one round of the loop: the iterator yields the element at its
\* position and moves on by one; removeHandler takes that element out of the
\* list, which moves the later elements down by one
RemoveNextHandler ==
    /\ lgPc = "clearing"
    /\ lgIter < Len(lgHandlers)
    /\ lgHandlers' = RemoveAt(lgHandlers, lgIter + 1)
    /\ lgIter' = lgIter + 1
    /\ UNCHANGED <<lgPc, lgCalls, lgLogFile, mainVars, adapterVars, startupVars, csvVars,
                   listVars, interactiveVars>>

\* lines 26 and 29-49: the iterator's position is at or past the end of the
\* list, the loop ends; the console handler is added, then the file handler
\* when log_file was given
AddHandlers ==
    /\ lgPc = "clearing"
    /\ lgIter >= Len(lgHandlers)
    /\ lgHandlers' = lgHandlers \o <<Handler("console", lgCalls)>>
                         \o (IF lgLogFile THEN <<Handler("file", lgCalls)>> ELSE <<>>)
    /\ lgPc' = "ready"
    /\ UNCHANGED <<lgCalls, lgLogFile, lgIter, mainVars, adapterVars, startupVars, csvVars,
                   listVars, interactiveVars>>

NextLogging ==
    \/ SetupLoggingEnter
    \/ RemoveNextHandler
    \/ AddHandlers

SpecLogging == InitLogging /\ [][NextLogging]_vars

\* ========================================================= interactive mode
\* main with --interactive, from the call of list_available_models (line
\* 391) on.  As in the run of main above, the adapter is a stand-in: it has
\* been constructed, its list_available_models returns any sorted list
\* without duplicates and its get_preferred_model any name.
ModelNames == {<<"gemini">>, <<"gpt">>, <<"llama2">>}
AvailableModelLists == {sorted(S) : S \in {T \in SUBSET ModelNames : Cardinality(T) <= MaxModels}}
PreferredModels == ModelNames \cup {<<"gpt-4o">>}

\* what input() gives: a line of text, or EOFError at the end of the input
ChoiceTexts == {<<>>, <<" ">>, <<"1">>, <<" ", "2">>, <<"3">>, <<"0">>, <<"x">>, <<"sup2">>}
ChoiceInputs ==
    {[raises |-> FALSE, text |-> t] : t \in ChoiceTexts} \cup {[raises |-> TRUE, text |-> <<>>]}

\* str.isdigit(): true of the decimal digits and of digit characters such as
\* the superscript two (the character written "sup2" here), and false of the
\* empty string
isdigit(text) ==
    Len(text) > 0 /\ \A k \in 1..Len(text) : text[k] \in {"0", "1", "2", "3", "sup2"}

\* int(text) raises ValueError for a character that is not a decimal digit
IntRaises(text) == \E k \in 1..Len(text) : text[k] \notin {"0", "1", "2", "3"}

\* int(text) of a one-digit text
int(text) ==
    CASE text = <<"1">> -> 1
      [] text = <<"2">> -> 2
      [] text = <<"3">> -> 3
      [] OTHER -> 0

\* variant: the preferred model is taken as configured
PreferredOrFirst_asConfigured(preferred, models) == preferred

\* lines 396-399: the preferred model, or the first of the list when the
\* preferred one is not in it
PreferredOrFirst(preferred, models) ==
    IF preferred \in set(models) THEN preferred ELSE models[1]

InitInteractive ==
    /\ MainIdle /\ AdaptersIdle /\ StartupIdle /\ CsvIdle /\ ListingIdle /\ LoggingIdle
    /\ iaPc = "list"
    /\ available_models = <<>>
    /\ iaPreferred \in PreferredModels
    /\ preferred_model = NoModel
    /\ model_choice_input = NoInput
    /\ chosen_model = NoModel
    /\ iaModelUsed = NoModel

\* lines 391-405: the models are listed; main returns when there is none, and
\* settles the default otherwise
InteractiveListModels ==
    /\ iaPc = "list"
    /\ \E models \in AvailableModelLists :
           /\ available_models' = models
           /\ IF models = <<>>
              THEN iaPc' = "exited" /\ UNCHANGED preferred_model
              ELSE /\ preferred_model' = PreferredOrFirst(iaPreferred, models)
                   /\ iaPc' = "choose"
    /\ UNCHANGED <<iaPreferred, model_choice_input, chosen_model, iaModelUsed, mainVars,
                   adapterVars, startupVars, csvVars, listVars, loggingVars>>

\* lines 407-420, one round of `while chosen_model not in available_models`:
\* an empty line takes the default, a number in range the model of that
\* position, anything else asks again; an exception of input() or int()
\* makes main return
InteractiveReadChoice ==
    /\ iaPc = "choose"
    /\ \E line \in ChoiceInputs :
           LET model_choice == strip(line.text)
               inRange == 1 <= int(model_choice) /\ int(model_choice) <= Len(available_models)
           IN  /\ model_choice_input' = line
               /\ IF line.raises \/ (model_choice # <<>> /\ isdigit(model_choice)
                                        /\ IntRaises(model_choice))
                  THEN iaPc' = "exited" /\ UNCHANGED chosen_model
                  ELSE /\ chosen_model' =
                              IF model_choice = <<>> THEN preferred_model
                              ELSE IF isdigit(model_choice) /\ inRange
                              THEN available_models[int(model_choice)]
                              ELSE chosen_model
                       /\ iaPc' = IF chosen_model' \in set(available_models)
                                  THEN "prompt" ELSE "choose"
    /\ UNCHANGED <<available_models, iaPreferred, preferred_model, iaModelUsed, mainVars,
                   adapterVars, startupVars, csvVars, listVars, loggingVars>>

\* lines 422-467 and 514-517: args.model is the chosen model; a prompt version
\* is chosen, or main returns
InteractiveChoosePrompt ==
    /\ iaPc = "prompt"
    /\ \E selected \in BOOLEAN : iaPc' = IF selected THEN "dispatch" ELSE "exited"
    /\ UNCHANGED <<available_models, iaPreferred, preferred_model, model_choice_input,
                   chosen_model, iaModelUsed, mainVars, adapterVars, startupVars, csvVars,
                   listVars, loggingVars>>

\* lines 519-536: with a company to process, process_single_company is called
\* with args.model; with none, main ends
InteractiveDispatch ==
    /\ iaPc = "dispatch"
    /\ \E anyCompany \in BOOLEAN :
           IF anyCompany
           THEN iaModelUsed' = chosen_model /\ iaPc' = "processed"
           ELSE iaPc' = "finished" /\ UNCHANGED iaModelUsed
    /\ UNCHANGED <<available_models, iaPreferred, preferred_model, model_choice_input,
                   chosen_model, mainVars, adapterVars, startupVars, csvVars, listVars,
                   loggingVars>>

NextInteractive ==
    \/ InteractiveListModels
    \/ InteractiveReadChoice
    \/ InteractiveChoosePrompt
    \/ InteractiveDispatch

SpecInteractive == InitInteractive /\ [][NextInteractive]_vars

\* ===================================================================== claims
\* the run reads a CSV file (main, line 521)
BatchMode == ~Truthy(args.company) /\ args.csv_file

\* a name is blank when nothing is left of it after strip()
NonBlank(name) == Len(rstrip(name)) > 0

\* the requests of the run whose name is not blank, in input order
NonBlankRequests ==
    SelectSeq([i \in 1..Len(companies) |-> i], LAMBDA i : NonBlank(companies[i]))

\* the request of each summary row, in sheet order
RowRequests == [k \in 1..Len(summary) |-> summary[k].req]

RowsOf(i) == SelectSeq(summary, LAMBDA r : r.req = i)
DetailsOf(i) == SelectSeq(details, LAMBDA r : r.req = i)

\* process_single_company has returned for request i
Processed(i) == i < cur \/ (i = cur /\ pc \in {"loop", "finished"})

IsTimeoutRow(r, i) ==
    /\ r.req = i
    /\ r.error = TimeoutMessage(companies[i], config.COMPANY_RESEARCH_TIMEOUT_SECONDS)
    /\ r.error.secs = TimeoutSeconds
    /\ r.json = NoFile
    /\ r.subsidiaries = 0 /\ r.financial = 0 /\ r.news = 0

\* request i has been recorded as a Timeout
TimedOut(i) == i <= Len(companies) /\ \E k \in 1..Len(summary) : IsTimeoutRow(summary[k], i)

\* a payload that validates as StructuredData
IsItemList(field) == field.t = "list" /\ \A k \in 1..Len(field.items) : field.items[k] = "map"
WellFormed(v) ==
    /\ v.kind = "dict"
    /\ ~v.error.has
    /\ v.company_name.has
    /\ IsItemList(v.subsidiaries) /\ IsItemList(v.financial_info) /\ IsItemList(v.news_info)

\* C1: when the batch loop has finished, the Run Summary sheet holds exactly
\* one row per non-blank company name of the list, in input order.
C1_OneRowPerCompany ==
    (pc = "finished" /\ BatchMode) => RowRequests = NonBlankRequests

\* C2: no failure of one company leaves process_single_company: main never
\* dies in the loop, and when it finishes it has gone through the whole list.
C2_NoFailurePropagates ==
    /\ pc # "crashed"
    /\ pc = "finished" => cur = Len(companies)

\* C3 (as stated): if the extract call had not finished when thread.join
\* returned, the step that follows records a Timeout row for the company.
C3_TimeoutWhenUnfinishedAtJoin ==
    [][(pc = "check" /\ pc' # "check" /\ joinSaw = "running")
          => (pc' = "loop" /\ Len(summary') = Len(summary) + 1
              /\ IsTimeoutRow(summary'[Len(summary')], cur))]_vars

\* C3 (amended): if result_container['completed'] is still False when
\* process_single_company reads it after the wait (line 260), that step appends
\* a Timeout row naming timeout_seconds, persists no payload (no JSON record,
\* no detail row) and returns to the loop, leaving the thread as it is.
C3_TimeoutWhenIncompleteAtCheck ==
    [][(pc = "check" /\ pc' # "check" /\ ~holder[HolderOf(cur)].completed)
          => (/\ pc' = "loop"
              /\ Len(summary') = Len(summary) + 1
              /\ SubSeq(summary', 1, Len(summary)) = summary
              /\ IsTimeoutRow(summary'[Len(summary')], cur)
              /\ details' = details
              /\ jsonFiles' = jsonFiles
              /\ worker' = worker
              /\ holder' = holder)]_vars

\* C3 witness: a Timeout row is the last row, main is back in the loop and the
\* extract call of that request is still running.
C3_Witness ==
    /\ pc = "loop" /\ cur >= 1 /\ Len(summary) >= 1
    /\ IsTimeoutRow(summary[Len(summary)], cur)
    /\ worker[cur] = "running"

\* C4: a request whose extract call raised before the deadline is recorded
\* with the extraction error carrying the exception's message.
C4_RaiseIsProviderError ==
    \A i \in Requests :
        (Processed(i) /\ adapterDid[i].did = "raised" /\ ~TimedOut(i))
            => \E k \in 1..Len(summary) :
                   /\ summary[k].req = i
                   /\ summary[k].error = ExtractionErrorMessage(companies[i], adapterDid[i].msg)

\* C6: a row without an error (a Success) is written only for a returned
\* payload that validates as StructuredData.
C6_SuccessOnlyForValidPayload ==
    \A k \in 1..Len(summary) :
        (summary[k].error = NoError /\ adapterDid[summary[k].req].did = "returned")
            => WellFormed(adapterDid[summary[k].req].value)

\* C7: a summary row has an empty Error exactly when its payload was persisted
\* (a JSON record file, detail rows allowed) and a non-empty Error exactly when
\* nothing was persisted for it (no JSON record file, no detail row).
C7_ErrorIffNothingPersisted ==
    \A k \in 1..Len(summary) :
        LET r == summary[k]
        IN  /\ r.error = NoError => (r.json.has /\ r.json \in DOMAIN jsonFiles)
            /\ r.error # NoError => (~r.json.has /\ DetailsOf(r.req) = <<>>)

\* C8 (as stated): at most one extract call is in flight at any moment.
C8_AtMostOneCallInFlight ==
    Cardinality({i \in Requests : worker[i] = "running"}) <= 1

\* C8 (amended): the call of the next company starts only after
\* process_single_company has returned for the earlier one, so every call in
\* flight other than the current request's is a call abandoned after its
\* timeout, whose request is recorded as a Timeout.
C8_OnlyAbandonedCallsOverlap ==
    \A i \in Requests :
        /\ i > cur => worker[i] = "idle"
        /\ (worker[i] \in {"running", "stored"} /\ (i < cur \/ pc \notin {"join", "check"}))
               => TimedOut(i)

\* C8 witness: the abandoned call of a timed-out request and the call of
\* the next request are in flight together.
C8_Witness ==
    /\ cur = 2 /\ pc = "join"
    /\ worker[1] = "running" /\ worker[2] = "running"
    /\ TimedOut(1)

\* what the container of request i holds if only the thread of request i
\* has written to it
OwnHolder(i) ==
    IF worker[i] \in {"idle", "running"} THEN FreshHolder
    ELSE [data |-> IF adapterDid[i].did = "returned" THEN adapterDid[i].value ELSE EmptyDict,
          error |-> IF adapterDid[i].did = "raised" /\ adapterDid[i].isException
                    THEN Str(adapterDid[i].msg) ELSE NoneStr,
          completed |-> worker[i] = "done"]

\* the summary row r records what the extract call of its own request did
RecordedFromOwnCall(r) ==
    LET a == adapterDid[r.req]
    IN  \/ r.error.kind \in {"timed out", "prompt version not found"}
        \/ /\ r.error.kind = "error during AI extraction"
           /\ a.did = "raised" /\ r.error.detail = a.msg
        \/ /\ r.error.kind = "AI model returned an error"
           /\ a.did = "returned" /\ a.value.error = Key(r.error.detail)
        \/ /\ r.error.kind = "none"
           /\ a.did # "nothing" /\ worker[r.req] = "done"
           /\ r.company = GetCompanyName(a.value)
           /\ r.subsidiaries = Count(a.value.subsidiaries)
           /\ r.financial = Count(a.value.financial_info)
           /\ r.news = Count(a.value.news_info)

\* C9: every call of process_single_company has a result container of its
\* own that only its own thread writes, so each recorded outcome is the outcome
\* of the request's own extract call, whatever an abandoned thread writes late.
C9_PrivateResultHolder ==
    /\ \A i \in Requests : holder[i] = OwnHolder(i)
    /\ \A k \in 1..Len(summary) : RecordedFromOwnCall(summary[k])

\* C9 witness: request 1 timed out and its thread has since stored a full
\* payload; request 2 is recorded with the error its own call returned.
C9_Witness ==
    /\ TimedOut(1) /\ worker[1] = "done" /\ holder[1].data = FullPayload
    /\ Processed(2) /\ adapterDid[2].value = ErrorDict(Boom)
    /\ \E k \in 1..Len(summary) :
           summary[k].req = 2 /\ summary[k].error = ModelErrorMessage(companies[2], Boom)

\* C10: once a request is recorded as a Timeout, its summary row stays the only
\* row of the request, it has no detail row, and no step of its thread writes
\* to the workbook or to the JSON directory.
C10_TimeoutIsFinal ==
    [][\A i \in Requests :
          TimedOut(i) =>
              /\ RowsOf(i)' = RowsOf(i)
              /\ Len(RowsOf(i)) = 1
              /\ DetailsOf(i)' = <<>>
              /\ worker'[i] # worker[i]
                    => (summary' = summary /\ details' = details /\ jsonFiles' = jsonFiles)]_vars

\* C10 witness: the run is over, the abandoned call of request 1 has completed
\* with a full payload, and the request still has its one Timeout row and no file.
C10_Witness ==
    /\ pc = "finished" /\ TimedOut(1)
    /\ worker[1] = "done" /\ holder[1].data = FullPayload /\ holder[1].completed
    /\ Len(RowsOf(1)) = 1 /\ DetailsOf(1) = <<>>
    /\ Len(companies) = 1 /\ jsonFiles = <<>>

\* the selected prompt version resolves to a usable prompts.json entry
PromptResolves ==
    /\ selected_prompt_version \in DOMAIN config.PROMPT_TEMPLATES
    /\ config.PROMPT_TEMPLATES[selected_prompt_version].nonempty

\* main has returned or died
RunOver == pc \in {"finished", "exited", "crashed"}

\* C11: there is a single attempt per company: no company's extract call is
\* started twice, and when a run that got as far as the loop is over, the call
\* has been started exactly once for every non-blank company of the list.
C11_SingleAttempt ==
    /\ \A i \in Requests : extractCalls[i] <= 1
    /\ (RunOver /\ PromptResolves /\ companies # <<>>)
           => \A i \in 1..Len(companies) : NonBlank(companies[i]) => extractCalls[i] = 1

\* the at-most-once half of C11 alone: no extract call is started twice
C11_NeverStartedTwice == \A i \in Requests : extractCalls[i] <= 1

\* C12: prompt resolution is all-or-nothing: no summary row ever carries the
\* prompt-not-found error, and when the selected version does not resolve to
\* a usable entry the run makes no extract call and records no outcome.
C12_PromptAllOrNothing ==
    /\ \A k \in 1..Len(summary) : summary[k].error.kind # "prompt version not found"
    /\ ~PromptResolves => (summary = <<>> /\ \A i \in Requests : extractCalls[i] = 0)

\* the setting the adapter of a provider requires is present in the config
RequiredSettingPresent(provider, cfg) ==
    CASE provider = "openai" -> Truthy(cfg.OPENAI_API_KEY)
      [] provider = "google_ai" -> Truthy(cfg.GOOGLE_API_KEY)
      [] OTHER -> Truthy(cfg.OLLAMA_BASE_URL)

AdapterClassOf(provider) ==
    CASE provider = "openai" -> "OpenAIModel"
      [] provider = "google_ai" -> "GoogleAIModel"
      [] OTHER -> "OllamaModel"

\* C13: once main has run the constructor of the chosen provider, it holds
\* the matching adapter and goes on when the provider's required setting is
\* present, and it has caught a configuration error (ValueError) and returned
\* when the setting is absent.
C13_ConstructsIffConfigured ==
    ai_instance # NoInstance =>
        IF RequiredSettingPresent(stArgs.provider, stConfig)
        THEN ai_instance = Constructed(AdapterClassOf(stArgs.provider)) /\ stPc = "run"
        ELSE ai_instance.caught = "ValueError" /\ stPc = "exited"

C15_BlankNamesSkipped ==
    \A i \in 1..Len(companies) :
        ~NonBlank(companies[i]) => (extractCalls[i] = 0 /\ RowsOf(i) = <<>>)

\* the trimmed first cells of the rows whose first cell is not blank, in order
TrimmedNonBlankFirstCells(file) ==
    LET kept == SelectSeq(file.rows, LAMBDA r : NonBlank(r.first))
    IN  [k \in 1..Len(kept) |-> strip(kept[k].first)]

\* C16: read_companies_from_csv returns, in file order, exactly the trimmed
\* first-column values of the rows whose first cell is not blank, and the
\* empty list for a missing or empty file.
C16_TrimmedNonBlankFirstColumn ==
    csvPc = "returned" =>
        csvResult = (IF csvFile.exists THEN TrimmedNonBlankFirstCells(csvFile) ELSE <<>>)

\* the extract call of the request main has just finished with returned a
\* value in time
ReturnedInTime(i) ==
    /\ pc \in {"loop", "finished"} /\ i = cur /\ i >= 1
    /\ adapterDid[i].did = "returned" /\ worker[i] = "done" /\ ~TimedOut(i)

\* C17: when process_single_company returns for a company whose extract call
\* returned a value in time, the JSON record file it has just written holds
\* as extracted_data exactly the value the call returned, under the name of
\* that company.
C17_RecordEqualsReturnedPayload ==
    \A i \in Requests :
        ReturnedInTime(i) =>
            LET f == FilePath(companies[i], run_id, clock)
            IN  /\ f \in DOMAIN jsonFiles
                /\ jsonFiles[f].extracted_data = adapterDid[i].value
                /\ jsonFiles[f].company_name = companies[i]

\* C17 witness: the call of the second company returned the full payload in
\* time and its record file holds it.
C17_Witness ==
    /\ ReturnedInTime(2) /\ adapterDid[2].value = FullPayload
    /\ \E f \in DOMAIN jsonFiles : jsonFiles[f].extracted_data = FullPayload

\* the prompt text process_single_company writes for a company: the version
\* id in a prompt-not-found row, the filled user template in any other row
PromptWrittenFor(r) ==
    IF r.error.kind = "prompt version not found" THEN selected_prompt_version
    ELSE replace(config.PROMPT_TEMPLATES[selected_prompt_version].user_template,
                 companies[r.req])

\* C18: every summary row carries its originating request: its Company Name
\* is the name passed to process_single_company, its AI Model Chosen the
\* model of the run and its prompt the prompt of that request.
C18_RowCarriesItsRequest ==
    \A k \in 1..Len(summary) :
        /\ summary[k].company = companies[summary[k].req]
        /\ summary[k].model = ModelName
        /\ summary[k].prompt = PromptWrittenFor(summary[k])

\* some extract call has answered (returned or raised)
SomeCallAnswered == \E i \in Requests : worker[i] \notin {"idle", "running"}

\* C19: a hung backend never stalls the run: main always comes to an end,
\* and in a run whose extract calls all hang forever that end is the end of
\* the batch loop (or the return at the start, before any company).
C19_HungCallsNeverStall ==
    /\ <>RunOver
    /\ <>(pc \in {"finished", "exited"} \/ SomeCallAnswered)

\* C19 witness: main has finished a batch of two companies, both recorded as
\* Timeout, while both extract calls are still hanging.
C19_Witness ==
    /\ pc = "finished" /\ Len(companies) = 2
    /\ worker[1] = "running" /\ worker[2] = "running"
    /\ TimedOut(1) /\ TimedOut(2)

\* C20: when the transport fails while the models are listed, before the
\* first model is read or part-way through the listing, list_available_models
\* returns the empty list.
C20_ListingFailureGivesEmpty ==
    (lsPc = "returned" /\ lsBackend.failAt > 0) => lsResult = <<>>

\* C21: the list list_available_models returns is in strictly ascending
\* order of its names, so it is sorted and no name occurs twice, and it holds
\* exactly the names the loop collected.
C21_SortedWithoutDuplicates ==
    lsPc = "returned" =>
        /\ \A k \in 1..(Len(lsResult) - 1) : NameRank(lsResult[k]) < NameRank(lsResult[k + 1])
        /\ \A j, k \in 1..Len(lsResult) : j # k => lsResult[j] # lsResult[k]
        /\ set(lsResult) = set(available_model_ids)

\* C21 witness: Ollama lists two tags of llama2, the loop collected the base
\* name twice, and the list returned holds it once.
C21_Witness ==
    /\ lsPc = "returned" /\ lsProvider = "ollama"
    /\ available_model_ids = <<<<"llama2">>, <<"llama2">>>>
    /\ lsResult = <<<<"llama2">>>>

\* C22: the call the runner makes, with (company name, model name, user
\* template, system text), is accepted by each adapter, and the request the
\* adapter sends carries the selected template with the placeholder replaced
\* by the company name, and the selected system text.
C22_RunnerCallCarriesSelectedPrompt ==
    (adPc = "completed" /\ adCall \in RunnerCalls) =>
        /\ adRequest.sent
        /\ adRequest.user = replace(adCall.more[1], adCall.company_name)
        /\ adRequest.system = adCall.more[2]

\* C23: prompt lookup is pure: no step of main, of process_single_company or
\* of an extraction thread (an abandoned one included) changes the loaded
\* configuration or its prompt templates, and every lookup of the run's
\* version resolves to the same template: the rows of a run are either all
\* prompt-not-found rows or all carry one and the same user template, filled
\* with the row's company name.
C23_PromptLookupPure ==
    /\ [][config' = config]_vars
    /\ [](\E t \in Templates :
             \A k \in 1..Len(summary) :
                 IF t.nonempty
                 THEN /\ summary[k].error.kind # "prompt version not found"
                      /\ summary[k].prompt = replace(t.user_template, companies[summary[k].req])
                 ELSE summary[k].error.kind = "prompt version not found")

\* C23 witness: the version was looked up for two companies with different
\* names, the first call was given up and has since completed, and both rows
\* carry the template filled with their own name.
C23_Witness ==
    /\ pc = "finished" /\ Len(summary) = 2
    /\ companies[1] # companies[2]
    /\ TimedOut(1) /\ worker[1] = "done"
    /\ summary[1].prompt = replace(ValidTemplate.user_template, companies[1])
    /\ summary[2].prompt = replace(ValidTemplate.user_template, companies[2])
    /\ config.PROMPT_TEMPLATES[selected_prompt_version] = ValidTemplate

HoldsFinalResult(i) ==
    LET h == holder[HolderOf(i)]
    IN  CASE adapterDid[i].did = "returned" -> h.data = adapterDid[i].value /\ h.error = NoneStr
          [] adapterDid[i].did = "raised" -> h.error = Str(adapterDid[i].msg) /\ h.data = EmptyDict
          [] OTHER -> FALSE

C26_OneSummaryRowPerWrite ==
    [][(\/ pc = "check" /\ pc' = "loop"
        \/ pc = "loop" /\ pc' = "loop" /\ cur' = cur + 1 /\ Truthy(companies[cur']))
          => /\ Len(summary') = Len(summary) + 1
             /\ SubSeq(summary', 1, Len(summary)) = summary
             /\ LET r == summary'[Len(summary')]
                IN  Len(details') - Len(details) =
                        IF IsError(r.error) THEN 0
                        ELSE r.subsidiaries + r.financial + r.news]_vars

\* C27: a JSON record file, once written, is never overwritten within the
\* invocation: every file of data/json_outputs keeps its content at every
\* later step, whatever company is processed next and however soon.
C27_RecordNeverOverwritten ==
    [][\A f \in DOMAIN jsonFiles : f \in DOMAIN jsonFiles' /\ jsonFiles'[f] = jsonFiles[f]]_vars

\* C28: whenever no call of setup_logging is under way and one has been
\* made, the logger holds exactly the handlers of the last call: its console
\* handler, then its file handler if log_file was given.
C28_OnlyHandlersOfLastCall ==
    (lgPc = "ready" /\ lgCalls >= 1) =>
        lgHandlers = <<Handler("console", lgCalls)>>
                        \o (IF lgLogFile THEN <<Handler("file", lgCalls)>> ELSE <<>>)

\* C29: in interactive mode an empty listing ends the run with no extraction
\* made; the model passed to process_single_company is a member of the
\* listing; and the round of the selection loop that reads an empty line
\* ends the loop with the preferred model, or with the first model of the
\* listing when the preferred one is not listed.
C29_ModelChosenFromListing ==
    /\ []((iaPc \notin {"idle", "list"} /\ available_models = <<>>)
             => (iaPc = "exited" /\ iaModelUsed = NoModel))
    /\ [](iaModelUsed # NoModel => iaModelUsed \in set(available_models))
    /\ [][(iaPc = "choose" /\ ~model_choice_input'.raises
              /\ strip(model_choice_input'.text) = <<>>)
             => (/\ iaPc' = "prompt"
                 /\ chosen_model' = (IF iaPreferred \in set(available_models)
                                      THEN iaPreferred ELSE available_models[1]))]_vars

\* C29 witness: the preferred model is not among the two listed, a blank
\* line was entered, and the company is processed with the first of the two.
C29_Witness ==
    /\ iaPc = "processed" /\ Len(available_models) = 2
    /\ iaPreferred \notin set(available_models)
    /\ strip(model_choice_input.text) = <<>> /\ ~model_choice_input.raises
    /\ iaModelUsed = available_models[1]

\* C30: in non-interactive mode, with --provider or --model missing, main
\* never gets to the constructor of an adapter: it is at its start or has
\* returned, no adapter constructor has run, no extract call has been made
\* and nothing has been recorded.
C30_MissingArgsEndTheRun ==
    (stPc # "idle" /\ (stArgs.provider = "none" \/ ~Truthy(stArgs.model))) =>
        /\ stPc \in {"args", "exited"}
        /\ ai_instance = NoInstance
        /\ \A i \in Requests : extractCalls[i] = 0
        /\ summary = <<>> /\ details = <<>> /\ jsonFiles = <<>>

\* C30 witness: a provider is given, the model is not, everything else is in
\* place, and main has returned.
C30_Witness ==
    /\ stPc = "exited" /\ stArgs.provider = "openai" /\ ~Truthy(stArgs.model)
    /\ stArgs.prompt_version = V1 /\ V1 \in stConfig.PROMPT_TEMPLATES
    /\ Truthy(stConfig.OPENAI_API_KEY)
    /\ ai_instance = NoInstance

\* C5: extract_company_info of each of the three adapters never raises: every
\* failure of the backend comes back as a mapping with an "error" message.
C5_AdaptersNeverRaise ==
    /\ adPc # "raised"
    /\ (adPc = "returned" /\ adBackend.b # "json") => HasErrorKey(adResult.value)

====
